---- MODULE Spec2Model ----
(***************************************************************************)
(* A model of src/assets/scriptMusique.py: the artist catalogue builder.   *)
(*                                                                         *)
(* A Python string is modelled as a sequence of one-character strings, so  *)
(* that slicing, prefix tests, regular-expression scans and concatenation  *)
(* are computed character by character.  The accented letters of the       *)
(* source are written as named tokens ("e_acute" for U+00E9, ...).  A      *)
(* Python value that may or may not be a string (a CSV cell, a JSON field) *)
(* is a record [k, s]: k is its type ("none", "str", "num") and s its      *)
(* characters when it is a string.                                         *)
(***************************************************************************)
EXTENDS Integers, Sequences, FiniteSets

VARIABLES
    fileExists,   \* whether CSV_PATH exists on disk
    rows,         \* the rows csv.DictReader yields from the input file
    pc,           \* where main() is
    artists,      \* read_csv: the list of unique artists
    seen,         \* read_csv: the set of lower-cased keys
    rowIdx,       \* read_csv: number of rows consumed
    out,          \* main: the list of records built so far
    idx,          \* main: enumerate() position, 1-based
    returned,     \* per record, the string its lookup returned
    events,       \* the run's external effects, in order (prints, GETs, sleeps, writes)
    outFile,      \* OUT_PATH: whether it was written, and the records written
    lastResp,     \* what the network gave the lookup of the current iteration
    fnArg,        \* argument of the function under unit check
    fnRes,        \* its result
    fnPhase       \* position of the unit check

vars == <<fileExists, rows, pc, artists, seen, rowIdx, out, idx, returned,
          events, outFile, lastResp, fnArg, fnRes, fnPhase>>

runVars == <<fileExists, rows, pc, artists, seen, rowIdx, out, idx, returned,
             events, outFile, lastResp>>

fnVars == <<fnArg, fnRes, fnPhase>>

---------------------------------------------------------------------------
(* Python values and strings *)

None == [k |-> "none", s |-> <<>>]

Str(chars) == [k |-> "str", s |-> chars]

\* a non-zero JSON number: truthy, and not a string
Num == [k |-> "num", s |-> <<>>]

\* Python truthiness of a value
Truthy(v) == v.k = "num" \/ (v.k = "str" /\ v.s # <<>>)

\* a or b
PyOr(a, b) == IF Truthy(a) THEN a ELSE b

\* what a call produces: a returned string, or an exception leaving the function
Ret(chars) == [k |-> "ret", s |-> chars]

Raise == [k |-> "raise", s |-> <<>>]

StartsWith(s, p) == Len(s) >= Len(p) /\ SubSeq(s, 1, Len(p)) = p

EndsWith(s, p) == Len(s) >= Len(p) /\ SubSeq(s, Len(s) - Len(p) + 1, Len(s)) = p

\* p occurs in s at position i
MatchAt(s, i, p) == i + Len(p) - 1 <= Len(s) /\ SubSeq(s, i, i + Len(p) - 1) = p

\* p in s
Contains(s, p) == \E i \in 1..(Len(s) + 1) : MatchAt(s, i, p)

UPPER == <<"A", "B", "C", "D", "E", "F", "G", "H", "I", "J", "K", "L", "M", "N", "O", "P", "Q", "R", "S", "T", "U", "V", "W", "X", "Y", "Z", "E_acute", "E_grave", "A_grave", "U_grave", "C_cedilla", "I_circ", "I_diaer", "O_circ", "E_circ", "A_circ">>

LOWER == <<"a", "b", "c", "d", "e", "f", "g", "h", "i", "j", "k", "l", "m", "n", "o", "p", "q", "r", "s", "t", "u", "v", "w", "x", "y", "z", "e_acute", "e_grave", "a_grave", "u_grave", "c_cedilla", "i_circ", "i_diaer", "o_circ", "e_circ", "a_circ">>

UPPER_SET == {UPPER[k] : k \in 1..Len(UPPER)}

LOWER_OF == [c \in UPPER_SET |-> LOWER[CHOOSE k \in 1..Len(UPPER) : UPPER[k] = c]]

\* the lower-case form of one character
LowerChar(c) == IF c \in UPPER_SET THEN LOWER_OF[c] ELSE c

\* s.lower()
lower(s) == [k \in 1..Len(s) |-> LowerChar(s[k])]

WHITESPACE == {" ", "\t", "\n"}

RECURSIVE lstrip(_)
lstrip(s) == IF s # <<>> /\ Head(s) \in WHITESPACE THEN lstrip(Tail(s)) ELSE s

RECURSIVE rstrip(_)
rstrip(s) ==
    IF s # <<>> /\ s[Len(s)] \in WHITESPACE THEN rstrip(SubSeq(s, 1, Len(s) - 1)) ELSE s

\* s.strip()
strip(s) == rstrip(lstrip(s))

\* index of the first c in s at or after from, 0 when there is none
FirstIndex(s, c, from) ==
    IF \E j \in from..Len(s) : s[j] = c
    THEN CHOOSE j \in from..Len(s) : s[j] = c /\ \A m \in from..(j - 1) : s[m] # c
    ELSE 0

---------------------------------------------------------------------------
(* Program constants *)

PLACEHOLDER == <<"h", "t", "t", "p", "s", ":", "/", "/", "v", "i", "a", ".", "p", "l", "a", "c", "e", "h", "o", "l", "d", "e", "r", ".", "c", "o", "m", "/", "4", "0", "0", "x", "4", "0", "0", ".", "p", "n", "g", "?", "t", "e", "x", "t", "=", "A", "r", "t", "i", "s", "t">>

RATINGS == <<"*****", "****1/2", "****", "***1/2">>

REGION_HINTS ==
    << <<"fr", <<<<"n", "e", "k", "f", "e", "u">>, <<"d", "a", "m", "s", "o">>, <<"l", "a", "y", "l", "o", "w">>, <<"f", "r", "e", "e", "z", "e", " ", "c", "o", "r", "l", "e", "o", "n", "e">>, <<"v", "a", "l", "d">>, <<"p", "n", "l">>,
                 <<"n", "i", "n", "h", "o">>, <<"g", "a", "z", "o">>, <<"a", "l", "p", "h", "a", " ", "w", "a", "n", "n">>, <<"b", "o", "o", "b", "a">>, <<"j", "u", "l">>, <<"s", "c", "h">>>> >>,
       <<"uk", <<<<"c", "e", "n", "t", "r", "a", "l", " ", "c", "e", "e">>, <<"d", "a", "v", "e">>, <<"s", "t", "o", "r", "m", "z", "y">>, <<"a", "j", " ", "t", "r", "a", "c", "e", "y">>, <<"s", "k", "e", "p", "t", "a">>,
                 <<"h", "e", "a", "d", "i", "e", " ", "o", "n", "e">>, <<"a", "r", "r", "d", "e", "e">>, <<"u", "n", "k", "n", "o", "w", "n", " ", "t">>, <<"d", "i", "g", "g", "a", " ", "d">>>> >>,
       <<"us", <<<<"k", "e", "n", "d", "r", "i", "c", "k", " ", "l", "a", "m", "a", "r">>, <<"t", "r", "a", "v", "i", "s", " ", "s", "c", "o", "t", "t">>, <<"k", "a", "n", "y", "e", " ", "w", "e", "s", "t">>, <<"d", "r", "a", "k", "e">>,
                 <<"j", ".", " ", "c", "o", "l", "e">>, <<"2", "1", " ", "s", "a", "v", "a", "g", "e">>, <<"f", "u", "t", "u", "r", "e">>, <<"l", "i", "l", " ", "b", "a", "b", "y">>, <<"p", "l", "a", "y", "b", "o", "i", " ", "c", "a", "r", "t", "i">>,
                 <<"y", "o", "u", "n", "g", " ", "t", "h", "u", "g">>>> >> >>

\* the character class of line 29
FR_ACCENTS == {"e_acute", "e_grave", "a_grave", "u_grave", "c_cedilla",
               "i_circ", "i_diaer", "o_circ", "e_circ", "a_circ"}

IMAGE_EXTS == {<<".", "j", "p", "g">>, <<".", "j", "p", "e", "g">>, <<".", "p", "n", "g">>, <<".", "g", "i", "f">>, <<".", "w", "e", "b", "p">>}

---------------------------------------------------------------------------
(* guess_region *)

\* any(w in n for w in words)
AnyWordIn(words, n) == \E k \in 1..Len(words) : Contains(n, words[k])

\* Scanning the regions from the last entry to the first.
RECURSIVE ScanRegionsBackwards(_, _)
ScanRegionsBackwards(n, k) ==
    IF k > Len(REGION_HINTS) THEN "none"
    ELSE LET j == Len(REGION_HINTS) + 1 - k
         IN  IF AnyWordIn(REGION_HINTS[j][2], n) THEN REGION_HINTS[j][1]
             ELSE ScanRegionsBackwards(n, k + 1)

\* the loop over REGION_HINTS.items(), in insertion order, from entry k on
RECURSIVE ScanRegions(_, _)
ScanRegions(n, k) ==
    IF k > Len(REGION_HINTS) THEN "none"
    ELSE IF AnyWordIn(REGION_HINTS[k][2], n) THEN REGION_HINTS[k][1]
    ELSE ScanRegions(n, k + 1)

guess_region(name) ==
    LET n == lower(name)
        reg == ScanRegions(n, 1)
    IN  IF reg # "none" THEN reg
        ELSE IF \E k \in 1..Len(n) : n[k] \in FR_ACCENTS THEN "fr"
        ELSE "other"

---------------------------------------------------------------------------
(* clean_name *)

FEAT == <<"f", "e", "a", "t">>

\* Dropping flags=re.I from the first substitution.
FeatMatchEndCaseSensitive(s, i) ==
    IF s[i] = "(" /\ i + 4 <= Len(s) /\ SubSeq(s, i + 1, i + 4) = FEAT
    THEN FirstIndex(s, ")", i + 5)
    ELSE 0

\* where a match of \(feat[^\)]*\) (re.I) starting at i ends, 0 when none starts there
FeatMatchEnd(s, i) ==
    IF s[i] = "(" /\ i + 4 <= Len(s) /\ lower(SubSeq(s, i + 1, i + 4)) = FEAT
    THEN FirstIndex(s, ")", i + 5)
    ELSE 0

\* re.sub(r"\(feat[^\)]*\)", "", s, flags=re.I), scanning from i
RECURSIVE SubFeat(_, _)
SubFeat(s, i) ==
    IF i > Len(s) THEN <<>>
    ELSE LET e == FeatMatchEnd(s, i)
         IN  IF e > 0 THEN SubFeat(s, e + 1) ELSE <<s[i]>> \o SubFeat(s, i + 1)

\* where a match of \[.*?\] starting at i ends ("." matches no line break), 0 when none
BracketMatchEnd(s, i) ==
    IF s[i] = "["
    THEN LET e == FirstIndex(s, "]", i + 1)
         IN  IF e > 0 /\ \A m \in (i + 1)..(e - 1) : s[m] # "\n" THEN e ELSE 0
    ELSE 0

\* re.sub(r"\[.*?\]", "", s), scanning from i
RECURSIVE SubBracket(_, _)
SubBracket(s, i) ==
    IF i > Len(s) THEN <<>>
    ELSE LET e == BracketMatchEnd(s, i)
         IN  IF e > 0 THEN SubBracket(s, e + 1) ELSE <<s[i]>> \o SubBracket(s, i + 1)

clean_name(name) == strip(SubBracket(SubFeat(name, 1), 1))

---------------------------------------------------------------------------
(* split_artists *)

\* p (lower case) occurs in s at i, letter case ignored
MatchAtI(s, i, p) ==
    i + Len(p) - 1 <= Len(s) /\ \A d \in 1..Len(p) : LowerChar(s[i + d - 1]) = p[d]

\* length of the match of [;,/]| feat\.| ft\. |&| and  (re.I) starting at i, 0 when none
SepLenAt(s, i) ==
    IF s[i] \in {";", ",", "/"} THEN 1
    ELSE IF MatchAtI(s, i, <<" ", "f", "e", "a", "t", ".">>) THEN 6
    ELSE IF MatchAtI(s, i, <<" ", "f", "t", ".", " ">>) THEN 5
    ELSE IF s[i] = "&" THEN 1
    ELSE IF MatchAtI(s, i, <<" ", "a", "n", "d", " ">>) THEN 5
    ELSE 0

\* re.split(pattern, s) from position i, cur being the part under construction
RECURSIVE re_split(_, _, _)
re_split(s, i, cur) ==
    IF i > Len(s) THEN <<cur>>
    ELSE LET n == SepLenAt(s, i)
         IN  IF n > 0 THEN <<cur>> \o re_split(s, i + n, <<>>)
             ELSE re_split(s, i + 1, Append(cur, s[i]))

\* Forgetting "if not p: continue".
RECURSIVE CleanPartsKeepEmpty(_)
CleanPartsKeepEmpty(parts) ==
    IF parts = <<>> THEN <<>>
    ELSE <<strip(clean_name(Head(parts)))>> \o CleanPartsKeepEmpty(Tail(parts))

\* the loop of lines 44-48
RECURSIVE CleanParts(_)
CleanParts(parts) ==
    IF parts = <<>> THEN <<>>
    ELSE LET p == strip(clean_name(Head(parts)))
         IN  IF p = <<>> THEN CleanParts(Tail(parts))
             ELSE <<p>> \o CleanParts(Tail(parts))

split_artists(raw) ==
    IF ~Truthy(raw) THEN <<>> ELSE CleanParts(re_split(raw.s, 1, <<>>))

---------------------------------------------------------------------------
(* normalize_image_url *)

\* Cutting at the last "?" instead of the first: u.rsplit("?", 1)[0].
CutQueryLast(s) ==
    IF \E j \in 1..Len(s) : s[j] = "?"
    THEN LET q == CHOOSE j \in 1..Len(s) : s[j] = "?" /\ \A m \in (j + 1)..Len(s) : s[m] # "?"
         IN  SubSeq(s, 1, q - 1)
    ELSE s

\* u.split("?")[0]
CutQuery(s) ==
    LET q == FirstIndex(s, "?", 1) IN IF q = 0 THEN s ELSE SubSeq(s, 1, q - 1)

normalize_image_url(u) ==
    IF ~Truthy(u) THEN Ret(<<>>)
    ELSE IF u.k # "str" THEN Raise
    ELSE LET u1 == CutQuery(u.s)
             u2 == IF StartsWith(u1, <<"/", "/">>) THEN <<"h", "t", "t", "p", "s", ":">> \o u1 ELSE u1
             u3 == IF StartsWith(u2, <<"/">>) THEN <<"h", "t", "t", "p", "s", ":", "/", "/", "d", "u", "c", "k", "d", "u", "c", "k", "g", "o", ".", "c", "o", "m">> \o u2 ELSE u2
         IN  IF StartsWith(u3, <<"h", "t", "t", "p", ":", "/", "/">>) \/ StartsWith(u3, <<"h", "t", "t", "p", "s", ":", "/", "/">>)
             THEN IF \E ext \in IMAGE_EXTS : EndsWith(lower(u3), ext)
                  THEN Ret(u3)
                  ELSE Ret(u3)
             ELSE Ret(<<>>)

---------------------------------------------------------------------------
(* Unit checks of the pure functions: the argument is drawn in the initial *)
(* state and one step applies the function to it.                          *)

MaxUrlChunks == 4

MaxNameChunks == 5

MaxFrags == 3

MaxRegionChunks == 2

RECURSIVE Concat(_)
Concat(ss) == IF ss = <<>> THEN <<>> ELSE Head(ss) \o Concat(Tail(ss))

SeqsUpTo(S, n) == UNION {[1..k -> S] : k \in 0..n}

\* the run's variables while a function is checked on its own
IdleRun ==
    /\ fileExists = FALSE
    /\ rows = <<>>
    /\ pc = "idle"
    /\ artists = <<>>
    /\ seen = {}
    /\ rowIdx = 0
    /\ out = <<>>
    /\ idx = 0
    /\ returned = <<>>
    /\ events = <<>>
    /\ outFile = [written |-> FALSE, data |-> <<>>]
    /\ lastResp = "none"

(* ---- normalize_image_url ---- *)

UrlChunks == {<<"/">>, <<"?">>, <<"a">>, <<"h", "t", "t", "p", ":", "/", "/">>, <<"h", "t", "t", "p", "s", ":", "/", "/">>, <<"f", "t", "p", ":">>, <<".", "p", "n", "g">>}

InitNorm ==
    /\ \E cs \in SeqsUpTo(UrlChunks, MaxUrlChunks) : fnArg = Str(Concat(cs))
    /\ fnRes = <<>>
    /\ fnPhase = "norm0"
    /\ IdleRun

NormOnce ==
    /\ fnPhase = "norm0"
    /\ fnRes' = <<normalize_image_url(fnArg)>>
    /\ fnPhase' = "norm1"
    /\ UNCHANGED <<fnArg, runVars>>

NormTwice ==
    /\ fnPhase = "norm1"
    /\ fnRes[1].k = "ret"
    /\ fnRes' = Append(fnRes, normalize_image_url(Str(fnRes[1].s)))
    /\ fnPhase' = "norm2"
    /\ UNCHANGED <<fnArg, runVars>>

NextNorm == NormOnce \/ NormTwice

SpecNorm == InitNorm /\ [][NextNorm]_vars

\* C5: normalize_image_url is idempotent: for every string u, applying it to its
\* own result returns that result again (and neither application raises).
C5_Idempotent ==
    /\ fnPhase \in {"norm1", "norm2"} => fnRes[1].k = "ret"
    /\ fnPhase = "norm2" => fnRes[2] = fnRes[1]

\* C5 witness: a protocol-relative URL with two "?" was normalized twice, the
\* first time into a different, non-empty string.
C5_Witness ==
    /\ fnPhase = "norm2"
    /\ StartsWith(fnArg.s, <<"/", "/">>)
    /\ Cardinality({j \in 1..Len(fnArg.s) : fnArg.s[j] = "?"}) = 2
    /\ fnRes[1].s # <<>>
    /\ fnRes[1].s # fnArg.s

(* ---- clean_name ---- *)

NameChunks == {<<"(">>, <<")">>, <<"[">>, <<"]">>, <<"F", "e", "a", "t">>, <<" ">>, <<"\n">>, <<"x">>}

InitClean ==
    /\ \E cs \in SeqsUpTo(NameChunks, MaxNameChunks) : fnArg = Str(Concat(cs))
    /\ fnRes = <<>>
    /\ fnPhase = "clean0"
    /\ IdleRun

Clean ==
    /\ fnPhase = "clean0"
    /\ fnRes' = <<clean_name(fnArg.s)>>
    /\ fnPhase' = "clean1"
    /\ UNCHANGED <<fnArg, runVars>>

NextClean == Clean

SpecClean == InitClean /\ [][NextClean]_vars

\* s holds "(feat", in any letter case, and a ")" somewhere after it
HasFeatParen(s) ==
    \E a \in 1..Len(s) :
        /\ s[a] = "("
        /\ a + 4 <= Len(s)
        /\ \A d \in 1..4 : LowerChar(s[a + d]) = FEAT[d]
        /\ \E b \in (a + 5)..Len(s) : s[b] = ")"

\* s holds a "[" and a "]" somewhere after it
HasBracketed(s) == \E a, b \in 1..Len(s) : a < b /\ s[a] = "[" /\ s[b] = "]"

\* the same, with no line break between the two
HasBracketedOnLine(s) ==
    \E a, b \in 1..Len(s) :
        /\ a < b /\ s[a] = "[" /\ s[b] = "]"
        /\ \A m \in (a + 1)..(b - 1) : s[m] # "\n"

Trimmed(s) == s = <<>> \/ (s[1] \notin WHITESPACE /\ s[Len(s)] \notin WHITESPACE)

\* no "(" or "[" stands inside an open parenthesis of s
NoNesting(s) ==
    \A a, b \in 1..Len(s) :
        (a < b /\ s[a] = "(" /\ s[b] \in {"(", "["})
            => \E m \in (a + 1)..(b - 1) : s[m] = ")"

\* C6 as stated: for every raw name, clean_name's result holds no "(feat ...)"
\* substring, no bracketed "[...]" substring and no leading or trailing whitespace.
C6_Original ==
    fnPhase = "clean1" =>
        /\ ~HasFeatParen(fnRes[1])
        /\ ~HasBracketed(fnRes[1])
        /\ Trimmed(fnRes[1])

\* C6 as amended: clean_name's result has no leading or trailing whitespace and no
\* "[...]" substring lying on one line; it holds no "(feat ...)" substring when no
\* "(" or "[" stands inside an open parenthesis of the raw name.
C6_Amended ==
    fnPhase = "clean1" =>
        /\ Trimmed(fnRes[1])
        /\ ~HasBracketedOnLine(fnRes[1])
        /\ NoNesting(fnArg.s) => ~HasFeatParen(fnRes[1])

\* C6 witness: a name with leading whitespace, a "(Feat)" annotation and no
\* nesting was cleaned to a non-empty name.
C6_Witness ==
    /\ fnPhase = "clean1"
    /\ fnArg.s # <<>> /\ fnArg.s[1] \in WHITESPACE
    /\ HasFeatParen(fnArg.s)
    /\ NoNesting(fnArg.s)
    /\ fnRes[1] # <<>>

(* ---- split_artists ---- *)

Fragments == {<<"a">>, <<" ", "b">>, <<" ">>, <<"[", "x", "]">>, <<"c", " ", "f", "t", ".">>}

Separators == {<<";">>, <<",">>, <<"/">>, <<" ", "f", "e", "a", "t", ".">>, <<" ", "F", "T", ".", " ">>, <<"&">>, <<" ", "A", "n", "d", " ">>}

\* frags[1] seps[1] frags[2] ... frags[k]
RECURSIVE Join(_, _)
Join(frags, seps) ==
    IF frags = <<>> THEN <<>>
    ELSE IF seps = <<>> THEN Head(frags)
    ELSE Head(frags) \o Head(seps) \o Join(Tail(frags), Tail(seps))

\* a cell made of the fragments f joined by the separators g
Cell(f, g) == [cell |-> Str(Join(f, g)), frags |-> f, seps |-> g]

InitSplit ==
    /\ \/ \E k \in 1..MaxFrags :
              \E f \in [1..k -> Fragments], g \in [1..(k - 1) -> Separators] :
                  fnArg = Cell(f, g)
       \/ fnArg = Cell(<<>>, <<>>)
       \/ fnArg = [cell |-> None, frags |-> <<>>, seps |-> <<>>]
    /\ fnRes = <<>>
    /\ fnPhase = "split0"
    /\ IdleRun

Split ==
    /\ fnPhase = "split0"
    /\ fnRes' = split_artists(fnArg.cell)
    /\ fnPhase' = "split1"
    /\ UNCHANGED <<fnArg, runVars>>

NextSplit == Split

SpecSplit == InitSplit /\ [][NextSplit]_vars

SepPatterns == {<<";">>, <<",">>, <<"/">>, <<" ", "f", "e", "a", "t", ".">>, <<" ", "f", "t", ".", " ">>, <<"&">>, <<" ", "a", "n", "d", " ">>}

\* one of the separators stands in s at position a, letter case ignored
SepOccursAt(s, a) ==
    \E p \in SepPatterns :
        /\ a + Len(p) - 1 <= Len(s)
        /\ \A d \in 1..Len(p) : LowerChar(s[a + d - 1]) = p[d]

\* where the j-th separator starts in Join(frags, seps)
RECURSIVE JointStart(_, _, _)
JointStart(frags, seps, j) ==
    IF j = 1 THEN Len(frags[1]) + 1
    ELSE JointStart(frags, seps, j - 1) + Len(seps[j - 1]) + Len(frags[j])

\* the separators of the cell are those that join its fragments, and no others:
\* no fragment holds a separator or forms one with its neighbours
WellJoined(a) ==
    {p \in 1..Len(a.cell.s) : SepOccursAt(a.cell.s, p)}
        = {JointStart(a.frags, a.seps, j) : j \in 1..Len(a.seps)}

\* clean_name of each fragment, in order, without those that come out empty
CleanedNonEmpty(frags) ==
    SelectSeq([m \in 1..Len(frags) |-> clean_name(frags[m])], LAMBDA p : p # <<>>)

RegionChunks == {<<"N", "e", "k", "f", "e", "u">>, <<"L", "a", "y", "l", "o", "w">>, <<"D", "r", "a", "k", "e">>, <<"D", "a", "v", "e">>, <<"S", "C", "H">>, <<"e_acute">>, <<"E_acute">>, <<"x">>, <<" ">>}

InitRegion ==
    /\ \E cs \in SeqsUpTo(RegionChunks, MaxRegionChunks) : fnArg = Str(Concat(cs))
    /\ fnRes = <<>>
    /\ fnPhase = "region0"
    /\ IdleRun

Classify ==
    /\ fnPhase = "region0"
    /\ fnRes' = <<guess_region(fnArg.s)>>
    /\ fnPhase' = "region1"
    /\ UNCHANGED <<fnArg, runVars>>

NextRegion == Classify

SpecRegion == InitRegion /\ [][NextRegion]_vars

\* the keywords of a region, as line 19-21 list them
KeywordsOf(reg) ==
    LET e == CHOOSE e \in {REGION_HINTS[k] : k \in 1..Len(REGION_HINTS)} : e[1] = reg
    IN  {e[2][k] : k \in 1..Len(e[2])}

\* a keyword of the region is a substring of the lower-cased name
Hints(reg, name) ==
    \E w \in KeywordsOf(reg) :
        \E a \in 1..Len(name) :
            /\ a + Len(w) - 1 <= Len(name)
            /\ \A d \in 1..Len(w) : LowerChar(name[a + d - 1]) = w[d]

HasAccent(name) == \E a \in 1..Len(name) : LowerChar(name[a]) \in FR_ACCENTS

\* C8: guess_region returns one of fr, uk, us, other: the first region, in the
\* order fr, uk, us, one of whose keywords is a substring of the lower-cased name;
\* with no keyword, fr when the name holds one of the accented characters of line
\* 29 and other when it holds none.  "Nekfeu" and "Laylow" give fr, "Drake" us.
C8_Region ==
    fnPhase = "region1" =>
        LET n == fnArg.s
            r == fnRes[1]
        IN  /\ r \in {"fr", "uk", "us", "other"}
            /\ Hints("fr", n) => r = "fr"
            /\ (~Hints("fr", n) /\ Hints("uk", n)) => r = "uk"
            /\ (~Hints("fr", n) /\ ~Hints("uk", n) /\ Hints("us", n)) => r = "us"
            /\ (~Hints("fr", n) /\ ~Hints("uk", n) /\ ~Hints("us", n))
                   => r = (IF HasAccent(n) THEN "fr" ELSE "other")
            /\ n \in {<<"N", "e", "k", "f", "e", "u">>, <<"L", "a", "y", "l", "o", "w">>} => r = "fr"
            /\ n = <<"D", "r", "a", "k", "e">> => r = "us"

\* C8 witness: a name holding a uk keyword and a us keyword was classified uk.
C8_Witness ==
    /\ fnPhase = "region1"
    /\ Hints("uk", fnArg.s)
    /\ Hints("us", fnArg.s)
    /\ fnRes[1] = "uk"

---------------------------------------------------------------------------
(* ddg_search_image *)

(* The JSON body, by the fields the function reads.  A field the body does  *)
(* not hold, holds as null or holds as an empty object/list/string of the   *)
(* wrong kind is "none" wherever the code only tests its truth.             *)
(*   icon       [k, URL, url]   k: "none" | "str" (a non-empty string, not  *)
(*                              an object) | "dict"                         *)
(*   sub-topic  [k, Icon]       k: "dict" | "str" (not an object)           *)
(*   topics     [k, l]          k: "none" | "str" (truthy, not a list) |    *)
(*                              "list"                                      *)
(*   item       [k, Icon, Topics]             k: "dict" | "str"             *)
(*   body       [k, Image, image, RelatedTopics, AbstractImage]             *)
(*                              k: "dict" | "list" (any non-object)         *)
(* and what urlopen/json.loads did: [net, j], net: "timeout" (urlopen       *)
(* raised), "badjson" (json.loads raised) or "ok".                          *)

IconNone == [k |-> "none", URL |-> None, url |-> None]

IconStr == [k |-> "str", URL |-> None, url |-> None]

IconDict(upper, lowr) == [k |-> "dict", URL |-> upper, url |-> lowr]

SubStr == [k |-> "str", Icon |-> IconNone]

SubDict(icon) == [k |-> "dict", Icon |-> icon]

NoList == [k |-> "none", l |-> <<>>]

NotAList == [k |-> "str", l |-> <<>>]

List(l) == [k |-> "list", l |-> l]

ItemStr == [k |-> "str", Icon |-> IconNone, Topics |-> NoList]

ItemDict(icon, topics) == [k |-> "dict", Icon |-> icon, Topics |-> topics]

Body(img, imgLower, rt, abs) ==
    [k |-> "dict", Image |-> img, image |-> imgLower, RelatedTopics |-> rt,
     AbstractImage |-> abs]

\* a body whose top level is not an object
BodyNotObject ==
    [k |-> "list", Image |-> None, image |-> None, RelatedTopics |-> NoList,
     AbstractImage |-> None]

Response(net, j) == [net |-> net, j |-> j]

\* the loop goes on: nothing returned, nothing raised
Skip == [k |-> "skip", s |-> <<>>]

\* lines 80-84 and 91-94: the icon of a dict entry
TryIcon(holder) ==
    LET icon == holder.Icon
    IN  IF icon.k = "str" THEN Raise
        ELSE LET url_icon == IF icon.k = "none" THEN None ELSE PyOr(icon.URL, icon.url)
             IN  IF ~Truthy(url_icon) THEN Skip
                 ELSE IF url_icon.k # "str" THEN Raise
                 ELSE IF strip(url_icon.s) = <<>> THEN Skip
                 ELSE normalize_image_url(url_icon)

\* lines 89-94: for sub in topics, from position m
RECURSIVE ScanSubs(_, _)
ScanSubs(subs, m) ==
    IF m > Len(subs) THEN Skip
    ELSE LET r == IF subs[m].k = "dict" THEN TryIcon(subs[m]) ELSE Skip
         IN  IF r # Skip THEN r ELSE ScanSubs(subs, m + 1)

\* lines 77-94: for item in rt, from position m
RECURSIVE ScanItems(_, _)
ScanItems(items, m) ==
    IF m > Len(items) THEN Skip
    ELSE LET item == items[m]
             own == IF item.k = "dict" THEN TryIcon(item) ELSE Skip
         IN  IF own # Skip THEN own
             ELSE LET nested ==
                          IF item.k = "dict" /\ item.Topics.k = "list" /\ item.Topics.l # <<>>
                          THEN ScanSubs(item.Topics.l, 1)
                          ELSE Skip
                  IN  IF nested # Skip THEN nested ELSE ScanItems(items, m + 1)

\* the artist only forms the query; resp is what the network and json.loads gave
ddg_search_image(resp) ==
    IF resp.net # "ok" THEN Ret(<<>>)
    ELSE LET j == resp.j
         IN  IF j.k # "dict" THEN Raise
             ELSE LET img == PyOr(j.Image, j.image)
                  IN  IF Truthy(img) /\ img.k = "str" /\ strip(img.s) # <<>>
                      THEN normalize_image_url(img)
                      ELSE LET r == IF j.RelatedTopics.k = "list"
                                    THEN ScanItems(j.RelatedTopics.l, 1)
                                    ELSE Skip
                           IN  IF r # Skip THEN r
                               ELSE IF Truthy(j.AbstractImage)
                                    THEN normalize_image_url(j.AbstractImage)
                                    ELSE Ret(<<>>)

(* ---- the lookup on its own ---- *)

MaxItems == 2

MaxSubs == 2

ImageVals == {None, Str(<<>>), Str(<<" ">>), Str(<<"/", "/", "t", "?", "q">>), Num}

ImageLowerVals == {None, Str(<<"h", "t", "t", "p", "s", ":", "/", "/", "l">>)}

AbstractVals == {None, Str(<<"/", "a">>), Str(<<"f", "t", "p", ":", "x">>), Num}

IconVals ==
    {IconNone, IconStr, IconDict(Str(<<"h", "t", "t", "p", "s", ":", "/", "/", "i">>), None), IconDict(Str(<<" ">>), Str(<<"/", "/", "j">>)),
     IconDict(None, Str(<<"/", "/", "j">>)), IconDict(Num, None)}

SubVals == {SubStr, SubDict(IconNone), SubDict(IconStr), SubDict(IconDict(Str(<<"h", "t", "t", "p", "s", ":", "/", "/", "s">>), None))}

TopicsVals == {NoList, NotAList} \cup {List(l) : l \in SeqsUpTo(SubVals, MaxSubs)}

ItemVals == {ItemStr} \cup {ItemDict(icon, t) : icon \in IconVals, t \in TopicsVals}

\* a few related-topics values, to go with every combination of the top-level fields
FewTopics ==
    {NoList, NotAList, List(<<>>), List(<<ItemStr>>),
     List(<<ItemDict(IconDict(Str(<<"h", "t", "t", "p", "s", ":", "/", "/", "i">>), None), NoList)>>),
     List(<<ItemDict(IconStr, NoList)>>)}

InitDdg ==
    /\ \/ \E net \in {"timeout", "badjson"} : fnArg = Response(net, BodyNotObject)
       \/ fnArg = Response("ok", BodyNotObject)
       \/ \E img \in ImageVals, low \in ImageLowerVals, abs \in AbstractVals, rt \in FewTopics :
              fnArg = Response("ok", Body(img, low, rt, abs))
       \/ \E img \in {None, Str(<<" ">>)}, abs \in {None, Str(<<"/", "a">>)} :
              \E l \in SeqsUpTo(ItemVals, MaxItems) :
                  fnArg = Response("ok", Body(img, None, List(l), abs))
    /\ fnRes = <<>>
    /\ fnPhase = "ddg0"
    /\ IdleRun

Lookup ==
    /\ fnPhase = "ddg0"
    /\ fnRes' = <<ddg_search_image(fnArg)>>
    /\ fnPhase' = "ddg1"
    /\ UNCHANGED <<fnArg, runVars>>

NextDdg == Lookup

SpecDdg == InitDdg /\ [][NextDdg]_vars

\* C3 as stated: whatever the lookup met -- a network error, an unparseable body,
\* or a parsed value of unexpected shape -- ddg_search_image returns a string and
\* never raises; after a network or parse failure, and for a body that is not an
\* object, that string is empty.
C3_NeverRaises ==
    fnPhase = "ddg1" =>
        /\ fnRes[1].k = "ret"
        /\ (fnArg.net # "ok" \/ fnArg.j.k # "dict") => fnRes[1] = Ret(<<>>)

\* the icon URL of a dict entry as lines 82-83 read it: a string that is not blank
IconUrlOf(holder) ==
    IF holder.k = "dict" /\ holder.Icon.k = "dict"
    THEN LET u == PyOr(holder.Icon.URL, holder.Icon.url)
         IN  IF u.k = "str" /\ strip(u.s) # <<>> THEN <<u>> ELSE <<>>
    ELSE <<>>

\* the usable icon URLs of an entry: its own, then those of its sub-topics in order
RECURSIVE SubIconUrls(_)
SubIconUrls(subs) ==
    IF subs = <<>> THEN <<>> ELSE IconUrlOf(Head(subs)) \o SubIconUrls(Tail(subs))

RECURSIVE IconUrls(_)
IconUrls(items) ==
    IF items = <<>> THEN <<>>
    ELSE LET item == Head(items)
         IN  IconUrlOf(item)
             \o (IF item.k = "dict" /\ item.Topics.k = "list" THEN SubIconUrls(item.Topics.l)
                 ELSE <<>>)
             \o IconUrls(Tail(items))

\* the field C9 says is chosen ("non-empty" read as the code reads it: a string
\* that is not blank), None when C9 says the result is empty
ChosenField(j) ==
    LET img == PyOr(j.Image, j.image)
        icons == IF j.k = "dict" /\ j.RelatedTopics.k = "list"
                 THEN IconUrls(j.RelatedTopics.l) ELSE <<>>
    IN  IF j.k # "dict" THEN None
        ELSE IF img.k = "str" /\ strip(img.s) # <<>> THEN img
        ELSE IF icons # <<>> THEN icons[1]
        ELSE IF j.AbstractImage.k = "str" THEN j.AbstractImage
        ELSE None

\* C9 as stated: on a parsed response the result is the normalization of the
\* first, in priority order, of: the top-level image field; the first non-empty
\* icon URL of the related topics in list order, an entry's own icon before its
\* sub-topics'; the abstract-image field; and it is empty when there is none.
C9_Priority ==
    (fnPhase = "ddg1" /\ fnArg.net = "ok") =>
        fnRes[1] = normalize_image_url(ChosenField(fnArg.j))

\* The part of C9 the code does keep: whenever the lookup returns at all, what it
\* returns is the normalization of the field C9 names.
PriorityWhenReturned ==
    (fnPhase = "ddg1" /\ fnArg.net = "ok" /\ fnRes[1].k = "ret") =>
        fnRes[1] = normalize_image_url(ChosenField(fnArg.j))

---------------------------------------------------------------------------
(* read_csv and main: the run *)

MaxRows == 2

\* the always-safe characters of urllib.parse.quote, and its default safe "/"
SAFE_CHARS ==
    LET c == <<"A", "B", "C", "D", "E", "F", "G", "H", "I", "J", "K", "L", "M", "N", "O", "P", "Q", "R", "S", "T", "U", "V", "W", "X", "Y", "Z", "a", "b", "c", "d", "e", "f", "g", "h", "i", "j", "k", "l", "m", "n", "o", "p", "q", "r", "s", "t", "u", "v", "w", "x", "y", "z", "0", "1", "2", "3", "4", "5", "6", "7", "8", "9", "_", ".", "-", "~", "/">>
    IN  {c[k] : k \in 1..Len(c)}

\* the percent-encoding of the unsafe characters the modelled names hold
PercentOf(c) ==
    CASE c = " " -> <<"%", "2", "0">>
      [] c = "&" -> <<"%", "2", "6">>
      [] c = "(" -> <<"%", "2", "8">>
      [] c = ")" -> <<"%", "2", "9">>
      [] c = "[" -> <<"%", "5", "B">>
      [] c = "]" -> <<"%", "5", "D">>

\* urllib.parse.quote(s)
quote(s) ==
    Concat([k \in 1..Len(s) |-> IF s[k] \in SAFE_CHARS THEN <<s[k]>> ELSE PercentOf(s[k])])

\* a row of csv.DictReader, by the three columns read_csv looks at: None when
\* the file has no such column or the row is too short to reach it
Row(an, lowr, upper) == [an |-> an, artist |-> lowr, Artist |-> upper]

RowVals ==
    {Row(Str(<<"P", "N", "L", ";", "D", "r", "a", "k", "e">>), None, None),
     Row(Str(<<>>), Str(<<"p", "n", "l", " ", "&", " ", "A", "J", " ", "T", "r", "a", "c", "e", "y">>), Str(<<>>)),
     Row(Str(<<>>), Str(<<>>), Str(<<"d", "r", "a", "k", "e", " ", "[", "R", "e", "m", "i", "x", "]">>)),
     Row(Str(<<>>), None, None),
     Row(Str(<<"A", "j", " ", "T", "r", "a", "c", "e", "y", ",", " ", "P", "n", "l", ",", " ", "a", "j", " ", "t", "r", "a", "c", "e", "y">>), None, None)}

\* what the network gives a lookup of the run
RunResponses ==
    {Response("timeout", BodyNotObject),
     Response("badjson", BodyNotObject),
     Response("ok", Body(None, None, NoList, None)),
     Response("ok", Body(Str(<<"/", "/", "t", "?", "q">>), None, NoList, None)),
     Response("ok", Body(None, None, List(<<ItemDict(IconStr, NoList)>>), None)),
     Response("ok", BodyNotObject)}

Ev(e, i) == [e |-> e, i |-> i]

\* line 129
RowRaw(row) == PyOr(PyOr(PyOr(row.an, row.artist), row.Artist), Str(<<>>))

\* Taking the part itself as the key: key = p.
RECURSIVE AddPartsCaseSensitive(_, _, _)
AddPartsCaseSensitive(parts, arts, sn) ==
    IF parts = <<>> THEN [artists |-> arts, seen |-> sn]
    ELSE LET p == Head(parts)
         IN  IF p \notin sn
             THEN AddPartsCaseSensitive(Tail(parts), Append(arts, p), sn \cup {p})
             ELSE AddPartsCaseSensitive(Tail(parts), arts, sn)

\* lines 131-135: for p in parts
RECURSIVE AddParts(_, _, _)
AddParts(parts, arts, sn) ==
    IF parts = <<>> THEN [artists |-> arts, seen |-> sn]
    ELSE LET p == Head(parts)
             key == lower(p)
         IN  IF key \notin sn
             THEN AddParts(Tail(parts), Append(arts, p), sn \cup {key})
             ELSE AddParts(Tail(parts), arts, sn)

\* Leaving out the fallback of lines 151-153.
ImageNoFallback(img) == [image |-> img, note |-> "ok"]

\* lines 148-155
ImageOrPlaceholder(img) ==
    IF img = <<>> THEN [image |-> PLACEHOLDER, note |-> "placeholder"]
    ELSE [image |-> img, note |-> "ok"]

\* lines 156-162
Entry(artist, region, image, rating) ==
    [name |-> artist,
     url |-> <<"h", "t", "t", "p", "s", ":", "/", "/", "o", "p", "e", "n", ".", "s", "p", "o", "t", "i", "f", "y", ".", "c", "o", "m", "/", "s", "e", "a", "r", "c", "h", "/", "a", "r", "t", "i", "s", "t", "%", "3", "A">> \o quote(artist),
     region |-> region,
     image |-> image,
     rating |-> rating]

Init ==
    /\ \/ fileExists = FALSE /\ rows = <<>>
       \/ fileExists = TRUE /\ rows \in SeqsUpTo(RowVals, MaxRows)
    /\ pc = "start"
    /\ artists = <<>>
    /\ seen = {}
    /\ rowIdx = 0
    /\ out = <<>>
    /\ idx = 0
    /\ returned = <<>>
    /\ events = <<>>
    /\ outFile = [written |-> FALSE, data |-> <<>>]
    /\ lastResp = "none"
    /\ fnArg = None
    /\ fnRes = <<>>
    /\ fnPhase = "idle"

\* lines 121-123: no input file
ReadCsvMissing ==
    /\ pc = "start"
    /\ ~fileExists
    /\ events' = Append(events, Ev("print_missing", 0))
    /\ pc' = "fatal"
    /\ UNCHANGED <<fileExists, rows, artists, seen, rowIdx, out, idx, returned,
                   outFile, lastResp, fnVars>>

\* lines 124-127
ReadCsvOpen ==
    /\ pc = "start"
    /\ fileExists
    /\ artists' = <<>>
    /\ seen' = {}
    /\ rowIdx' = 0
    /\ pc' = "reading"
    /\ UNCHANGED <<fileExists, rows, out, idx, returned, events, outFile, lastResp, fnVars>>

\* lines 128-135: one row
ReadRow ==
    /\ pc = "reading"
    /\ rowIdx < Len(rows)
    /\ LET raw == RowRaw(rows[rowIdx + 1])
           parts == split_artists(raw)
           r == AddParts(parts, artists, seen)
       IN  /\ artists' = r.artists
           /\ seen' = r.seen
    /\ rowIdx' = rowIdx + 1
    /\ UNCHANGED <<fileExists, rows, pc, out, idx, returned, events, outFile, lastResp, fnVars>>

\* lines 136, 139-143
ReadCsvReturn ==
    /\ pc = "reading"
    /\ rowIdx = Len(rows)
    /\ events' = Append(events, Ev("print_count", Len(artists)))
    /\ out' = <<>>
    /\ idx' = 1
    /\ pc' = "loop"
    /\ UNCHANGED <<fileExists, rows, artists, seen, rowIdx, returned, outFile, lastResp, fnVars>>

\* lines 143-164: one iteration up to the pause.  An exception leaving
\* ddg_search_image is caught nowhere: it ends the run.
Iterate ==
    /\ pc = "loop"
    /\ idx <= Len(artists)
    /\ \E k \in 1..Len(RATINGS), resp \in RunResponses :
          LET artist == artists[idx]
              region == guess_region(artist)
              rating == RATINGS[k]
              img == ddg_search_image(resp)
              fb == ImageOrPlaceholder(img.s)
          IN  /\ lastResp' = resp.net
              /\ IF img.k = "raise"
                 THEN /\ events' = Append(events, Ev("get", idx))
                      /\ pc' = "crashed"
                      /\ UNCHANGED <<out, returned>>
                 ELSE /\ out' = Append(out, Entry(artist, region, fb.image, rating))
                      /\ returned' = Append(returned, img.s)
                      /\ events' = events \o <<Ev("get", idx), Ev("print_progress", idx)>>
                      /\ pc' = "sleep"
    /\ UNCHANGED <<fileExists, rows, artists, seen, rowIdx, idx, outFile, fnVars>>

\* line 165
Sleep ==
    /\ pc = "sleep"
    /\ events' = Append(events, Ev("sleep", idx))
    /\ idx' = idx + 1
    /\ lastResp' = "none"
    /\ pc' = "loop"
    /\ UNCHANGED <<fileExists, rows, artists, seen, rowIdx, out, returned, outFile, fnVars>>

\* lines 166-168
WriteOut ==
    /\ pc = "loop"
    /\ idx > Len(artists)
    /\ outFile' = [written |-> TRUE, data |-> out]
    /\ events' = events \o <<Ev("write", 0), Ev("print_done", Len(out))>>
    /\ pc' = "done"
    /\ UNCHANGED <<fileExists, rows, artists, seen, rowIdx, out, idx, returned, lastResp, fnVars>>

Next ==
    \/ ReadCsvMissing
    \/ ReadCsvOpen
    \/ ReadRow
    \/ ReadCsvReturn
    \/ Iterate
    \/ Sleep
    \/ WriteOut

Spec == Init /\ [][Next]_vars

---------------------------------------------------------------------------
(* Properties of the run *)

\* the parts split_artists gave for the first n rows, in scan order
RECURSIVE ScannedParts(_)
ScannedParts(n) ==
    IF n = 0 THEN <<>> ELSE ScannedParts(n - 1) \o split_artists(RowRaw(rows[n]))

\* a and b are equal when lower-cased
SameFolded(a, b) ==
    Len(a) = Len(b) /\ \A k \in 1..Len(a) : LowerChar(a[k]) = LowerChar(b[k])

\* ps without each element that equals, lower-cased, an earlier one
FirstSeen(ps) ==
    LET keep == {k \in 1..Len(ps) : \A m \in 1..(k - 1) : ~SameFolded(ps[m], ps[k])}
    IN  [n \in 1..Cardinality(keep) |->
            ps[CHOOSE k \in keep : Cardinality({m \in keep : m <= k}) = n]]

NamesOf(records) == [k \in 1..Len(records) |-> records[k].name]

\* C1: the artist list read_csv builds holds no two names equal when lower-cased;
\* after each row, when read_csv returns and when the run ends, it holds the names
\* in the order of their first occurrence in the row scan, each in the casing of
\* that first occurrence; the records built and written carry these names in the
\* same order.
C1_UniqueFirstSeen ==
    /\ \A a, b \in 1..Len(artists) : a # b => ~SameFolded(artists[a], artists[b])
    /\ (pc \in {"reading", "done"} \/ (pc = "loop" /\ idx = 1))
           => artists = FirstSeen(ScannedParts(rowIdx))
    /\ NamesOf(out) = SubSeq(artists, 1, Len(out))
    /\ outFile.written => NamesOf(outFile.data) = artists

\* C1 witness: the run ended with "PNL" first in the file although "pnl" came
\* later in the scan, and with fewer names than the scan met.
C1_Witness ==
    /\ pc = "done"
    /\ outFile.written
    /\ Len(outFile.data) >= 2
    /\ outFile.data[1].name = <<"P", "N", "L">>
    /\ \E k \in 2..Len(ScannedParts(rowIdx)) : ScannedParts(rowIdx)[k] = <<"p", "n", "l">>
    /\ Len(ScannedParts(rowIdx)) > Len(artists)

\* C2: every record main appends has a non-empty image: the PLACEHOLDER URL when
\* the lookup returned the empty string (as it does after a network timeout), and
\* otherwise the URL the lookup returned.
C2_ImageNeverEmpty ==
    /\ Len(returned) = Len(out)
    /\ \A k \in 1..Len(out) :
          /\ out[k].image # <<>>
          /\ returned[k] = <<>> => out[k].image = PLACEHOLDER
          /\ returned[k] # <<>> => out[k].image = returned[k]
    /\ (pc = "sleep" /\ lastResp \in {"timeout", "badjson"}) => out[Len(out)].image = PLACEHOLDER
    /\ outFile.written => outFile.data = out

\* C2 witness: a record was just appended after a network timeout, with the
\* placeholder, behind a record that carries a URL the lookup returned.
C2_Witness ==
    /\ pc = "sleep"
    /\ lastResp = "timeout"
    /\ Len(out) = 2
    /\ out[2].image = PLACEHOLDER
    /\ out[1].image = <<"h", "t", "t", "p", "s", ":", "/", "/", "t">>

\* the run's lookups, pauses and write, in order
Effects == SelectSeq(events, LAMBDA ev : ev.e \in {"get", "sleep", "write"})

\* for n artists: GET 1, pause, GET 2, pause, ..., GET n, pause, write
ExpectedEffects(n) ==
    [k \in 1..(2 * n) |-> IF k % 2 = 1 THEN Ev("get", (k + 1) \div 2) ELSE Ev("sleep", k \div 2)]
        \o <<Ev("write", 0)>>

\* C4 as stated: without the input file the run stops at once in the fatal state
\* after the diagnostic -- no lookup, no pause, no record, no output file; with
\* the input file no row or lookup failure ever ends the run abnormally.
C4_FatalOnlyWhenMissing ==
    /\ ~fileExists =>
          /\ pc \in {"start", "fatal"}
          /\ pc = "fatal" => events = <<Ev("print_missing", 0)>>
          /\ Effects = <<>>
          /\ out = <<>>
          /\ ~outFile.written
    /\ fileExists => pc \notin {"fatal", "crashed"}

\* The half of C4 the code keeps: what happens without the input file.
MissingInputStopsAtOnce ==
    ~fileExists =>
        /\ pc \in {"start", "fatal"}
        /\ pc = "fatal" => events = <<Ev("print_missing", 0)>>
        /\ Effects = <<>>
        /\ out = <<>>
        /\ ~outFile.written

\* C10 as stated: with the input file, the run issues for each unique artist, in
\* first-seen order, exactly one lookup followed by exactly one pause, whatever
\* the lookup's outcome, and writes the output after the last pause, one record
\* per unique artist.
C10_OneLookupOnePause ==
    (fileExists /\ pc \in {"done", "crashed"}) =>
        /\ Effects = ExpectedEffects(Len(artists))
        /\ outFile.written
        /\ NamesOf(outFile.data) = artists

\* The part of C10 the code keeps: the lookups, pauses and write made so far are
\* the beginning of that sequence, and a run that reaches its end made all of it.
LoopOrder ==
    /\ Len(Effects) <= 2 * Len(artists) + 1
    /\ Effects = SubSeq(ExpectedEffects(Len(artists)), 1, Len(Effects))
    /\ pc = "done" =>
          /\ Effects = ExpectedEffects(Len(artists))
          /\ NamesOf(outFile.data) = artists
    /\ outFile.written => pc = "done"

====
